---- MODULE Spec2Model ----
(***************************************************************************)
(* swivel: the BLE presence pipeline of BLEScanner                         *)
(* (src/src/swivel/scanners/ble_scanner.py) over the ledger of             *)
(* src/src/swivel/database/ble_dto.py.                                     *)
(*                                                                         *)
(* One scan cycle (BLEScanner.scan) opens one AsyncSession, walks the      *)
(* discovered batch and, per sighting, classifies the device, links it to  *)
(* a place, records relocations and appends a Seen row.  The helpers       *)
(* _create_new_place, _add_device_to_place, _update_place_device and       *)
(* _update_relocation each COMMIT the session themselves; each handler     *)
(* answers an exception with session.rollback().                           *)
(*                                                                         *)
(* The store is modelled twice: `db` is what is committed, `sess` is what  *)
(* the open session sees (committed rows plus the session's flushed or     *)
(* pending changes).  commit copies sess to db, rollback copies db to      *)
(* sess.  The steps of a sighting are cut at the helper calls, so that     *)
(* every intermediate committed state is a state of the model.             *)
(***************************************************************************)
EXTENDS Integers, Sequences, FiniteSets, TLC

VARIABLES
    db,               \* committed rows: devices, places, place_devices, seen, relocations
    sess,             \* the open session's view of the same tables
    pc,               \* position of scan(): "idle" or the step about to run
    devices,          \* the batch returned by BleakScanner.discover()
    idx,              \* 1-based index of the sighting being processed
    geodata,          \* the fix of this cycle (local `geodata` of scan)
    place,            \* local `place` of scan: a Place id, or None
    new_place,        \* local `new_place` of scan: a Place id, or None
    cached_geodata,   \* BLEScanner.cached_geodata
    last_gps_fetch,   \* BLEScanner.last_gps_fetch
    now,              \* datetime.utcnow(), in seconds
    cycles,           \* scan cycles started so far
    faults,           \* faults raised so far
    branch,           \* which branch of scan the current sighting took
    faulted,          \* where exceptions were raised while processing the current sighting
                      \* (after the final commit: whether that commit raised)
    snapS,            \* the session's view when the current sighting began
    snapC,            \* the committed rows when the current cycle began
    log,              \* the sightings of this cycle processed so far, with their outcome
    is_scanning,      \* BLEScanner._is_scanning
    scan_task,        \* BLEScanner._scan_task: None, or the state of the task it refers to
    tasks,            \* _scan_loop tasks created and not yet finished
    events,           \* events published on the event bus
    ctl,              \* the caller of start_scanning / stop_scanning: its last call
    report            \* what the last query (a report, a place lookup) produced

vars == <<db, sess, pc, devices, idx, geodata, place, new_place, cached_geodata,
          last_gps_fetch, now, cycles, faults, branch, faulted, snapS, snapC, log,
          is_scanning, scan_task, tasks, events, ctl, report>>

----------------------------------------------------------------------------
(* Bounds of the model. *)

\* scan cycles explored
MaxCycles == 2
\* faults explored: exceptions raised by the store (an execute, flush or
\* commit) or by a provider (location, discovery)
MaxFaults == 1

(* Program constants. *)

\* BLEScanner.DEFAULT_PLACE_RADIUS, metres
DEFAULT_PLACE_RADIUS == 50
\* timedelta(minutes=1) of _get_cached_geodata, seconds
CacheSeconds == 60
\* datetime.min, the initial last_gps_fetch
datetime_min == 0

(* Inputs. *)

\* hardware addresses the discovery provider may report
Addresses == {"AA:BB:CC:DD:EE:FF", "11:22:33:44:55:66"}

\* service uuids, as the strings of characters bleak reports (shortened to
\* their 16-bit part): a uuid is not empty and holds no comma
Uuid18 == <<"1", "8">>

Uuid0f == <<"0", "f">>

Uuid180f == <<"1", "8", "0", "f">>

Uuid180a == <<"1", "8", "0", "a">>

\* the service uuids each device advertises: one device advertises two, the
\* other none
Advertised(a) == IF a = "AA:BB:CC:DD:EE:FF" THEN <<Uuid180f, Uuid180a>> ELSE <<>>

\* seconds elapsed between two calls of scan(): within and beyond the cache interval
Elapsed == {10, 70}

\* GeoData(latitude, longitude).  Coordinates are metres on a local grid, so
\* that the distance of two fixes is an integer.
GeoData(lat, lon) == [latitude |-> lat, longitude |-> lon]

\* fixes the location provider may return: the second lies within 50 m of
\* both others, which are more than 50 m apart
Fixes == {GeoData(0, 0), GeoData(0, 30), GeoData(0, 60)}

\* Python's None for a Place reference (Place ids start at 1)
None == 0

\* cached_geodata = None: no fix fetched yet
NoGeoData == GeoData(-1, -1)

\* Python's None for a coordinate: get_current_location returns (None, None)
\* when location services are disabled or time out
NoCoordinate == -1000

\* GeoData(latitude=None, longitude=None)
NoFix == GeoData(NoCoordinate, NoCoordinate)

\* a fix or a place without coordinates
Missing(g) == g.latitude = NoCoordinate \/ g.longitude = NoCoordinate

----------------------------------------------------------------------------
(* The ledger. *)

EmptyStore ==
    [devices       |-> [a \in {} |-> 0],
     places        |-> <<>>,
     place_devices |-> [k \in {} |-> 0],
     seen          |-> <<>>,
     relocations   |-> <<>>]

\* f"{geodata.latitude}, {geodata.longitude}"
FormatGeodata(g) == <<g.latitude, ", ", g.longitude>>

\* a join that puts nothing between the uuids
RECURSIVE Join_NoSeparator(_)
Join_NoSeparator(uuids) ==
    IF Len(uuids) = 0 THEN <<>>
    ELSE uuids[1] \o Join_NoSeparator(Tail(uuids))

\* ",".join(uuids): the characters of the uuids, in their order, with a
\* comma between two of them
RECURSIVE Join(_)
Join(uuids) ==
    IF Len(uuids) = 0 THEN <<>>
    ELSE IF Len(uuids) = 1 THEN uuids[1]
    ELSE uuids[1] \o <<",">> \o Join(Tail(uuids))

\* ",".join(uuids) if uuids else None  (None is the empty signature, which
\* the join of uuids that are not empty never gives)

gatt_signature(uuids) == IF Len(uuids) > 0 THEN Join(uuids) ELSE <<>>

Abs(x) == IF x < 0 THEN -x ELSE x

\* geopy.distance.distance(a, b).meters
distance_between(g, p) == Abs(g.latitude - p.latitude) + Abs(g.longitude - p.longitude)

\* distance_between <= place.radius (line 314).  What geopy makes of a
\* missing coordinate is not part of this repository: when it reads None as
\* 0.0 degrees, a point without coordinates is at distance 0 from another
\* such point and far from every fix of the grid.
Within(g, p) ==
    IF Missing(g) \/ Missing(p)
    THEN Missing(g) /\ Missing(p)
    ELSE distance_between(g, p) <= p.radius

\* the least element of a non-empty set of place ids
First(ids) == CHOOSE i \in ids : \A j \in ids : i <= j

\* a nearest-match lookup: of the places that cover the fix, the one at the
\* least distance
find_place_for_device_Nearest(st, g) ==
    LET hits == {i \in 1..Len(st.places) : Within(g, st.places[i])}
    IN IF hits = {} THEN None
       ELSE First({i \in hits : \A j \in hits :
                      distance_between(g, st.places[i]) <= distance_between(g, st.places[j])})

\* a lookup that sees only the places committed before the cycle began, and
\* not the one an earlier sighting of the batch created
find_place_for_device_Stale(st, g) ==
    LET hits == {i \in 1..Len(st.places) :
                    i <= Len(snapC.places) /\ Within(g, st.places[i])}
    IN IF hits = {} THEN None ELSE First(hits)

\* the first place, in id order, within whose radius the fix lies; None if none
find_place_for_device(st, g) ==
    LET hits == {i \in 1..Len(st.places) : Within(g, st.places[i])}
    IN IF hits = {} THEN None ELSE First(hits)

\* the same lookup when geopy raises on a missing coordinate: the loop of
\* lines 308-315 ends in the handler of line 317, which returns None, at the
\* first place it cannot measure
find_place_raising(st, g) ==
    LET bad  == {i \in 1..Len(st.places) : Missing(g) \/ Missing(st.places[i])}
        hits == {i \in 1..Len(st.places) \ bad :
                    distance_between(g, st.places[i]) <= st.places[i].radius}
    IN IF hits # {} /\ (bad = {} \/ First(hits) < First(bad))
       THEN First(hits) ELSE None

\* what _find_place_for_device may return: one result whenever every
\* coordinate involved is present
Lookups(st, g) == {find_place_for_device(st, g), find_place_raising(st, g)}

\* Place(latitude, longitude, radius=DEFAULT_PLACE_RADIUS); its id is the next rowid
NewPlace(g) == [latitude |-> g.latitude, longitude |-> g.longitude,
                radius |-> DEFAULT_PLACE_RADIUS]

\* a place creation that moves the latest place to the fix instead of adding one
AddPlace_MoveLatest(st, g) ==
    IF Len(st.places) = 0
    THEN [st EXCEPT !.places = Append(@, NewPlace(g))]
    ELSE [st EXCEPT !.places[Len(st.places)] = NewPlace(g)]

\* session.add(Place(...)) (lines 328-334)
AddPlace(st, g) == [st EXCEPT !.places = Append(@, NewPlace(g))]

\* a Device left to the column default of times_seen (0, ble_dto.py line 25)
NewDevice_ColumnDefault(g, t) ==
    [geodata |-> FormatGeodata(g), times_seen |-> 0, first_seen |-> t, last_seen |-> t]

\* Device(id, geodata, times_seen=1, first_seen, last_seen)
NewDevice(g, t) == [geodata |-> FormatGeodata(g), times_seen |-> 1,
                    first_seen |-> t, last_seen |-> t]

AddDevice(st, a, g, t) ==
    [st EXCEPT !.devices = [x \in DOMAIN @ \cup {a} |->
                               IF x = a THEN NewDevice(g, t) ELSE @[x]]]

\* existing_device.times_seen += 1; existing_device.last_seen = utcnow()
TouchDevice(st, a, t) ==
    [st EXCEPT !.devices[a].times_seen = @ + 1, !.devices[a].last_seen = t]

\* a select(PlaceDevice) that never finds the row
HasPlaceDevice_Never(st, p, a) == FALSE

\* select(PlaceDevice).filter_by(place_id, device_id) finds a row
HasPlaceDevice(st, p, a) == <<p, a>> \in DOMAIN st.place_devices

\* PlaceDevice(place_id, device_id, times_seen=1)
AddPlaceDevice(st, p, a) ==
    [st EXCEPT !.place_devices = [k \in DOMAIN @ \cup {<<p, a>>} |->
                                     IF k = <<p, a>> THEN 1 ELSE @[k]]]

\* a same-place sighting that also moves the device's geodata to the place
IncrementPlaceDevice_MoveGeodata(st, p, a) ==
    [st EXCEPT !.place_devices[<<p, a>>] = @ + 1,
               !.devices[a].geodata = FormatGeodata(st.places[p])]

\* a same-place sighting that leaves the join row's counter alone
IncrementPlaceDevice_Lost(st, p, a) == st

\* a same-place sighting that starts the join row's counter anew
IncrementPlaceDevice_Reset(st, p, a) ==
    [st EXCEPT !.place_devices[<<p, a>>] = 1]

\* a same-place sighting that also records a relocation to the fix
IncrementPlaceDevice_Relocating(st, p, a) ==
    [st EXCEPT !.place_devices[<<p, a>>] = @ + 1,
               !.relocations = Append(@, [device_id   |-> a,
                                          old_geodata |-> st.devices[a].geodata,
                                          new_geodata |-> FormatGeodata(geodata),
                                          timestamp   |-> now])]

\* place_device.times_seen += 1
IncrementPlaceDevice(st, p, a) ==
    [st EXCEPT !.place_devices[<<p, a>>] = @ + 1]

\* a relocation that moves the device's geodata but appends no row
AddRelocation_NoRow(st, a, g, t) ==
    [st EXCEPT !.devices[a].geodata = FormatGeodata(g)]

\* a relocation that appends the row but leaves the device's geodata behind
AddRelocation_KeepGeodata(st, a, g, t) ==
    [st EXCEPT !.relocations = Append(@, [device_id   |-> a,
                                          old_geodata |-> st.devices[a].geodata,
                                          new_geodata |-> FormatGeodata(g),
                                          timestamp   |-> t])]

\* a relocation that overwrites the device's geodata before it captures it
AddRelocation_OverwriteFirst(st, a, g, t) ==
    [st EXCEPT !.relocations = Append(@, [device_id   |-> a,
                                          old_geodata |-> FormatGeodata(g),
                                          new_geodata |-> FormatGeodata(g),
                                          timestamp   |-> t]),
               !.devices[a].geodata = FormatGeodata(g)]

\* Relocation(device_id, old_geodata=device.geodata, new_geodata, timestamp);
\* device.geodata = new_geodata
AddRelocation(st, a, g, t) ==
    [st EXCEPT !.relocations = Append(@, [device_id   |-> a,
                                          old_geodata |-> st.devices[a].geodata,
                                          new_geodata |-> FormatGeodata(g),
                                          timestamp   |-> t]),
               !.devices[a].geodata = FormatGeodata(g)]

\* Seen(device_id, place_id, timestamp, rssi, gatt_signature)
AddSeen(st, a, p, t, rssi, sig) ==
    [st EXCEPT !.seen = Append(@, [device_id |-> a, place_id |-> p, timestamp |-> t,
                                   rssi |-> rssi, gatt_signature |-> sig])]

----------------------------------------------------------------------------
(* The batches BleakScanner.discover() may return: at most one sighting per  *)
(* address, in any order.                                                    *)

Sighting(a) == [address |-> a, rssi |-> -60, uuids |-> Advertised(a)]

Batches ==
    {<<>>}
    \cup {<<Sighting(a)>> : a \in Addresses}
    \cup {b \in {<<Sighting(a1), Sighting(a2)>> : a1 \in Addresses, a2 \in Addresses} :
             b[1].address # b[2].address}

cur == devices[idx]

CanFault == faults < MaxFaults

----------------------------------------------------------------------------
Init ==
    /\ db = EmptyStore
    /\ sess = EmptyStore
    /\ pc = "idle"
    /\ devices = <<>>
    /\ idx = 1
    /\ geodata = NoGeoData
    /\ place = None
    /\ new_place = None
    /\ cached_geodata = NoGeoData
    /\ last_gps_fetch = datetime_min
    /\ now = datetime_min + 2 * CacheSeconds
    /\ cycles = 0
    /\ faults = 0
    /\ branch = "none"
    /\ faulted = {}
    /\ snapS = EmptyStore
    /\ snapC = EmptyStore
    /\ log = <<>>
    /\ is_scanning = FALSE
    /\ scan_task = "None"
    /\ tasks = 0
    /\ events = <<>>
    /\ ctl = "none"
    /\ report = <<>>

----------------------------------------------------------------------------
(* Session discipline. *)

cycleVars == <<devices, geodata, cached_geodata, last_gps_fetch, now, cycles, snapC>>

\* the scheduler's fields and the output of the queries: no step of scan()
\* touches them
hostVars == <<is_scanning, scan_task, tasks, events, ctl, report>>

\* session.commit(): everything the session holds becomes durable
Commit(st) ==
    /\ sess' = st
    /\ db' = st

\* session.rollback(): everything not yet committed is discarded
Rollback ==
    /\ sess' = db
    /\ UNCHANGED db

\* an exception is raised here: a fault, counted against MaxFaults
Raise(where) ==
    /\ CanFault
    /\ faults' = faults + 1
    /\ faulted' = faulted \cup {where}

\* the first exception of a sighting, or of the final commit
RaiseFirst(where) ==
    /\ CanFault
    /\ faults' = faults + 1
    /\ faulted' = {where}

NoRaise == UNCHANGED <<faults, faulted>>

\* a sighting begins without an exception
Clean ==
    /\ faults' = faults
    /\ faulted' = {}

\* the loop of scan() moves on to the next sighting of the batch, or to the
\* cycle's final commit; `raised` tells whether the sighting ended in the
\* handler of lines 252-256
NextSighting(raised) ==
    /\ log' = Append(log, [address |-> cur.address, branch |-> branch',
                           faulted |-> faulted', raised |-> raised])
    /\ idx' = idx + 1
    /\ pc' = IF idx < Len(devices) THEN "classify" ELSE "commit"

\* a handler that gives up the rest of the batch
ExceptSighting_Abort ==
    /\ Rollback
    /\ log' = Append(log, [address |-> cur.address, branch |-> branch',
                           faulted |-> faulted', raised |-> TRUE])
    /\ idx' = idx + 1
    /\ pc' = "commit"

\* except Exception (lines 252-256): roll back, log, go on with the batch
ExceptSighting ==
    /\ Rollback
    /\ NextSighting(TRUE)

----------------------------------------------------------------------------
(* _get_cached_geodata (lines 281-293): the provider is asked again only   *)
(* when the last fetch is more than a minute old.                          *)

\* a cache that also expires when exactly a minute has passed
CacheExpired_AtAMinute(t) == t - last_gps_fetch >= CacheSeconds

CacheExpired(t) == t - last_gps_fetch > CacheSeconds

\* _scan_loop (lines 270-272): the first cycle runs at once, every later one
\* after the loop has slept
Slept == IF cycles = 0 THEN {0} ELSE Elapsed

(* scan(), lines 136-148: fetch the fix, discover the batch, open the      *)
(* session.  A provider that raises ends the cycle in the handler of       *)
(* lines 265-266.                                                          *)
scan_begin_from(elapsed, fixes, batches) ==
    /\ pc = "idle"
    /\ cycles < MaxCycles
    /\ \E dt \in elapsed, loc \in fixes, batch \in batches,
          outcome \in {"ok", "location_raises", "discover_raises"} :
         LET t == now + dt
             g == IF CacheExpired(t) THEN loc ELSE cached_geodata
         IN /\ now' = t
            /\ cycles' = cycles + 1
            /\ snapC' = db
            /\ log' = <<>>
            /\ idx' = 1
            /\ sess' = db
            /\ faults' = IF outcome = "ok" THEN faults ELSE faults + 1
            /\ IF outcome = "location_raises"
               THEN /\ CanFault
                    /\ CacheExpired(t)
                    /\ devices' = <<>>
                    /\ UNCHANGED <<cached_geodata, last_gps_fetch, geodata, pc>>
               ELSE /\ cached_geodata' = g
                    /\ last_gps_fetch' = IF CacheExpired(t) THEN t ELSE last_gps_fetch
                    /\ geodata' = g
                    /\ IF outcome = "discover_raises"
                       THEN CanFault /\ devices' = <<>> /\ UNCHANGED pc
                       ELSE /\ devices' = batch
                            /\ pc' = IF Len(batch) > 0 THEN "classify" ELSE "commit"
            /\ faulted' = IF outcome = "ok" THEN {} ELSE {outcome}
    /\ UNCHANGED <<db, place, new_place, branch, snapS>>
    /\ UNCHANGED hostVars

scan_begin_with(batches) == scan_begin_from(Slept, Fixes, batches)

scan_begin == scan_begin_with(Batches)

----------------------------------------------------------------------------
(* scan(), lines 167-242: look the device up, count the sighting or create *)
(* the Device, resolve the place and choose the branch.  Nothing is        *)
(* committed here.                                                         *)

\* select(Device) raises (line 169)
classify_select_fails ==
    /\ pc = "classify"
    /\ snapS' = sess
    /\ branch' = "none"
    /\ place' = None /\ new_place' = None
    /\ RaiseFirst("select_device")
    /\ ExceptSighting
    /\ UNCHANGED cycleVars
    /\ UNCHANGED hostVars

\* the device exists (lines 174-205)
classify_known ==
    /\ pc = "classify"
    /\ cur.address \in DOMAIN sess.devices
    /\ snapS' = sess
    /\ new_place' = None
    /\ LET a  == cur.address
           s1 == TouchDevice(sess, a, now)
       IN \E find_fails \in BOOLEAN, found \in Lookups(s1, geodata) :
            LET p == IF find_fails THEN None ELSE found
            IN /\ IF find_fails THEN RaiseFirst("find_place") ELSE Clean
               /\ place' = p
               /\ UNCHANGED <<db, idx, log>>
               /\ IF p = None
                  THEN /\ branch' = "relocated_new_place"
                       /\ sess' = s1
                       /\ pc' = "create_new_place"
                  ELSE IF HasPlaceDevice(s1, p, a)
                  THEN /\ branch' = "same_place"
                       /\ sess' = IncrementPlaceDevice(s1, p, a)
                       /\ pc' = "record_seen"
                  ELSE /\ branch' = "relocated"
                       /\ sess' = s1
                       /\ pc' = "update_place_device"
    /\ UNCHANGED cycleVars
    /\ UNCHANGED hostVars

\* select(PlaceDevice) raises (line 184): the handler of lines 252-256
classify_known_select_fails ==
    /\ pc = "classify"
    /\ cur.address \in DOMAIN sess.devices
    /\ \E found \in Lookups(sess, geodata) \ {None} : place' = found
    /\ snapS' = sess
    /\ branch' = "none"
    /\ new_place' = None
    /\ RaiseFirst("select_place_device")
    /\ ExceptSighting
    /\ UNCHANGED cycleVars
    /\ UNCHANGED hostVars

\* the device is new (lines 219-235)
classify_new ==
    /\ pc = "classify"
    /\ cur.address \notin DOMAIN sess.devices
    /\ snapS' = sess
    /\ new_place' = None
    /\ LET a  == cur.address
           s1 == AddDevice(sess, a, geodata, now)
       IN \E find_fails \in BOOLEAN, found \in Lookups(s1, geodata) :
            LET p == IF find_fails THEN None ELSE found
            IN /\ IF find_fails THEN RaiseFirst("find_place") ELSE Clean
               /\ place' = p
               /\ sess' = s1
               /\ UNCHANGED <<db, idx, log>>
               /\ IF p = None
                  THEN /\ branch' = "new_device_new_place"
                       /\ pc' = "create_new_place"
                  ELSE /\ branch' = "new_device"
                       /\ pc' = "add_device_to_place"
    /\ UNCHANGED cycleVars
    /\ UNCHANGED hostVars

\* session.flush() of the new Device raises (line 231)
classify_new_flush_fails ==
    /\ pc = "classify"
    /\ cur.address \notin DOMAIN sess.devices
    /\ snapS' = sess
    /\ branch' = "none"
    /\ place' = None /\ new_place' = None
    /\ RaiseFirst("flush")
    /\ ExceptSighting
    /\ UNCHANGED cycleVars
    /\ UNCHANGED hostVars

----------------------------------------------------------------------------
(* The helpers.  Each one commits the session when it succeeds, and rolls  *)
(* it back and swallows the exception when it fails.                       *)

known == branch \in {"same_place", "relocated", "relocated_new_place"}

\* _create_new_place (lines 321-343).  scan() binds the result to
\* `new_place` for a known device (line 208) and to `place` for a new one
\* (line 236).
create_new_place ==
    /\ pc = "create_new_place"
    /\ \E fails \in BOOLEAN :
         LET s1 == AddPlace(sess, geodata)
             id == IF fails THEN None ELSE Len(s1.places)
         IN /\ IF fails THEN Raise("create_new_place") /\ Rollback ELSE NoRaise /\ Commit(s1)
            /\ IF known
               THEN new_place' = id /\ UNCHANGED place
               ELSE place' = id /\ UNCHANGED new_place
    /\ pc' = "add_device_to_place"
    /\ UNCHANGED <<idx, branch, snapS, log>>
    /\ UNCHANGED cycleVars
    /\ UNCHANGED hostVars

\* the Place argument of _add_device_to_place: new_place at line 211, place at line 239
LinkTarget == IF known THEN new_place ELSE place

\* _add_device_to_place (lines 397-417).  place.id of None and a duplicate
\* (place_id, device_id) key raise inside the try block.
add_device_to_place ==
    /\ pc = "add_device_to_place"
    /\ LET a == cur.address
           broken == LinkTarget = None \/ HasPlaceDevice(sess, LinkTarget, a)
       IN \/ /\ ~broken
             /\ NoRaise
             /\ Commit(AddPlaceDevice(sess, LinkTarget, a))
          \/ /\ ~broken
             /\ Raise("add_device_to_place")
             /\ Rollback
          \/ /\ broken
             /\ faulted' = faulted \cup {"add_device_to_place"}
             /\ UNCHANGED faults
             /\ Rollback
    /\ pc' = IF known THEN "update_relocation" ELSE "record_seen"
    /\ UNCHANGED <<idx, place, new_place, branch, snapS, log>>
    /\ UNCHANGED cycleVars
    /\ UNCHANGED hostVars

\* a link that replaces the device's earlier join rows instead of adding to them
LinkOrIncrement_Move(st, p, a, t) ==
    [st EXCEPT !.place_devices =
                  [k \in {x \in DOMAIN @ : x[2] # a} \cup {<<p, a>>} |->
                      IF k = <<p, a>> THEN 1 ELSE @[k]],
               !.devices[a].last_seen = t]

\* what _update_place_device does to the session before it commits (lines 371-391)
LinkOrIncrement(st, p, a, t) ==
    LET s1 == IF HasPlaceDevice(st, p, a)
              THEN IncrementPlaceDevice(st, p, a)
              ELSE AddPlaceDevice(st, p, a)
    IN IF a \in DOMAIN s1.devices
       THEN [s1 EXCEPT !.devices[a].last_seen = t]
       ELSE s1

\* _update_place_device (lines 361-395)
update_place_device ==
    /\ pc = "update_place_device"
    /\ \/ /\ NoRaise
          /\ Commit(LinkOrIncrement(sess, place, cur.address, now))
       \/ /\ Raise("update_place_device")
          /\ Rollback
    /\ pc' = "update_relocation"
    /\ UNCHANGED <<idx, place, new_place, branch, snapS, log>>
    /\ UNCHANGED cycleVars
    /\ UNCHANGED hostVars

\* _update_relocation (lines 419-444)
update_relocation ==
    /\ pc = "update_relocation"
    /\ \/ /\ NoRaise
          /\ Commit(AddRelocation(sess, cur.address, geodata, now))
       \/ /\ Raise("update_relocation")
          /\ Rollback
    /\ pc' = "record_seen"
    /\ UNCHANGED <<idx, place, new_place, branch, snapS, log>>
    /\ UNCHANGED cycleVars
    /\ UNCHANGED hostVars

\* lines 244-251 and _record_seen (lines 515-540).  The argument place.id is
\* evaluated in scan(): when `place` is None the AttributeError reaches the
\* handler of lines 252-256.  An exception inside _record_seen is rolled
\* back and swallowed there.
record_seen ==
    /\ pc = "record_seen"
    /\ UNCHANGED <<place, new_place, branch, snapS>>
    /\ UNCHANGED cycleVars
    /\ UNCHANGED hostVars
    /\ IF place = None
       THEN /\ NoRaise
            /\ ExceptSighting
       ELSE \/ /\ NoRaise
               /\ sess' = AddSeen(sess, cur.address, place, now, cur.rssi,
                                  gatt_signature(cur.uuids))
               /\ UNCHANGED db
               /\ NextSighting(FALSE)
            \/ /\ Raise("record_seen")
               /\ Rollback
               /\ NextSighting(FALSE)

\* a final commit whose exception is not caught by scan() and ends the task
commit_Fatal ==
    /\ pc = "commit"
    /\ \/ /\ Clean
          /\ Commit(sess)
          /\ pc' = "idle"
       \/ /\ RaiseFirst("commit")
          /\ Rollback
          /\ pc' = "cancelled"
    /\ UNCHANGED <<idx, place, new_place, branch, snapS, log>>
    /\ UNCHANGED cycleVars
    /\ UNCHANGED hostVars

\* session.commit() at line 258, then the session is closed
commit ==
    /\ pc = "commit"
    /\ \/ /\ Clean
          /\ Commit(sess)
       \/ /\ RaiseFirst("commit")
          /\ Rollback
    /\ pc' = "idle"
    /\ UNCHANGED <<idx, place, new_place, branch, snapS, log>>
    /\ UNCHANGED cycleVars
    /\ UNCHANGED hostVars

\* the steps of scan() after the batch was discovered
scan_steps ==
    \/ classify_select_fails
    \/ classify_known
    \/ classify_known_select_fails
    \/ classify_new
    \/ classify_new_flush_fails
    \/ create_new_place
    \/ add_device_to_place
    \/ update_place_device
    \/ update_relocation
    \/ record_seen
    \/ commit

scan ==
    \/ scan_begin
    \/ scan_steps

\* run_scanner (lines 797-821): scan() is called in a loop, without the scheduler
Next == scan

Spec == Init /\ [][Next]_vars

----------------------------------------------------------------------------
(* The scheduler: start_scanning, stop_scanning and the task running       *)
(* _scan_loop.  One caller drives it, one call at a time.  The task is     *)
(* suspended at an await between the steps of scan() or in the loop's      *)
(* sleep; task.cancel() throws CancelledError into it there.               *)
(* CancelledError is not an Exception: no handler of scan() catches it, it *)
(* leaves the `async with` block, which closes the session, and ends the   *)
(* task in the handler of line 273.                                        *)
(* Every exception raised inside scan() is caught at line 265, and         *)
(* asyncio.sleep raises none, so the handler of lines 275-279 is never     *)
(* entered and has no step here.                                           *)

\* batches discovered while the scheduler is explored
SchedBatches == {<<Sighting(a)>> : a \in Addresses}

\* `if not self._is_scanning` (line 640)
MayLaunch_Always == TRUE

MayLaunch == ~is_scanning

\* start_scanning (lines 636-643); it awaits nothing
start_scanning ==
    /\ ctl # "stopping"
    /\ IF MayLaunch
       THEN /\ is_scanning' = TRUE
            /\ scan_task' = "pending"
            /\ tasks' = tasks + 1
            /\ ctl' = "start"
       ELSE /\ ctl' = "start_again"
            /\ UNCHANGED <<is_scanning, scan_task, tasks>>
    /\ UNCHANGED <<db, sess, pc, devices, idx, geodata, place, new_place,
                   cached_geodata, last_gps_fetch, now, cycles, faults, branch,
                   faulted, snapS, snapC, log, events, report>>

\* a cancel() the task does not notice: stop_scanning returns while the task runs on
cancel_Ignored ==
    /\ scan_task' = "done"
    /\ UNCHANGED pc

\* self._scan_task.cancel() (line 649): the task's next step is the
\* CancelledError raised where it is suspended
cancel ==
    /\ scan_task' = "cancelling"
    /\ pc' = "cancelled"

\* stop_scanning up to its await (lines 645-651)
stop_scanning ==
    /\ ctl # "stopping"
    /\ IF is_scanning /\ scan_task # "None"
       THEN /\ is_scanning' = FALSE
            /\ cancel
            /\ ctl' = "stopping"
       ELSE /\ ctl' = "stop"
            /\ UNCHANGED <<is_scanning, scan_task, pc>>
    /\ UNCHANGED <<db, sess, devices, idx, geodata, place, new_place,
                   cached_geodata, last_gps_fetch, now, cycles, faults, branch,
                   faulted, snapS, snapC, log, tasks, events, report>>

\* the task ends: CancelledError leaves scan() through the `async with` of
\* line 148, which closes the session, and is swallowed at line 273
scan_loop_cancelled ==
    /\ pc = "cancelled"
    /\ pc' = "idle"
    /\ sess' = db
    /\ scan_task' = "done"
    /\ tasks' = tasks - 1
    /\ UNCHANGED <<db, devices, idx, geodata, place, new_place, cached_geodata,
                   last_gps_fetch, now, cycles, faults, branch, faulted, snapS,
                   snapC, log, is_scanning, events, ctl, report>>

\* stop_scanning after its await (lines 652-656)
stop_returns ==
    /\ ctl = "stopping"
    /\ scan_task = "done"
    /\ scan_task' = "None"
    /\ ctl' = "stop"
    /\ UNCHANGED <<db, sess, pc, devices, idx, geodata, place, new_place,
                   cached_geodata, last_gps_fetch, now, cycles, faults, branch,
                   faulted, snapS, snapC, log, is_scanning, tasks, events, report>>

\* _scan_loop (lines 270-272): while the flag is set, the task scans
scan_loop ==
    /\ is_scanning
    /\ scan_task = "pending"
    /\ scan_begin_with(SchedBatches)

SchedNext ==
    \/ start_scanning
    \/ stop_scanning
    \/ scan_loop_cancelled
    \/ stop_returns
    \/ scan_loop
    \/ scan_steps

SchedSpec == Init /\ [][SchedNext]_vars

----------------------------------------------------------------------------
(* The pipeline when the location provider may have no fix:                *)
(* get_current_location returns (None, None), and _get_cached_geodata      *)
(* (lines 287-292) stores GeoData(None, None) with a fresh timestamp like  *)
(* any other fix.                                                          *)

\* what the location provider may return
FixesOrNone == Fixes \cup {NoFix}

scan_begin_any_fix == scan_begin_from(Slept, FixesOrNone, SchedBatches)

NoFixNext ==
    \/ scan_begin_any_fix
    \/ scan_steps

NoFixSpec == Init /\ [][NoFixNext]_vars

----------------------------------------------------------------------------
(* The Geo-Cache on its own: cycles that discover nothing, at intervals    *)
(* around the cache's minute.                                              *)

\* seconds between two requests: below, at, just above and above a minute
Waited == IF cycles = 0 THEN {0} ELSE {10, 59, 60, 61, 70}

get_cached_geodata == scan_begin_from(Waited, Fixes, {<<>>})

CacheNext ==
    \/ get_cached_geodata
    \/ commit

CacheSpec == Init /\ [][CacheNext]_vars

----------------------------------------------------------------------------
(* Vocabulary of the properties. *)

\* a sighting has just been processed: `last` is its outcome, snapS the
\* session's view when it began, sess the view it leaves
SightingDone == pc \in {"classify", "commit"} /\ Len(log) > 0

last == log[Len(log)]

\* the cycle is over: snapC is the committed ledger it started from
CycleDone == pc = "idle" /\ cycles > 0

\* the place the fix resolved to when the sighting began
Resolved == find_place_for_device(snapS, geodata)

\* the Seen row of the current cycle for address a at place p
SeenRow(a, p) ==
    [device_id |-> a, place_id |-> p, timestamp |-> now, rssi |-> -60,
     gatt_signature |-> gatt_signature(Advertised(a))]

\* the Relocation row of the current cycle for address a, moved from geodata string old
RelocationRow(a, old) ==
    [device_id |-> a, old_geodata |-> old, new_geodata |-> FormatGeodata(geodata),
     timestamp |-> now]

\* the PlaceDevice table st with one more row (p, a), counted once
WithLink(st, p, a) ==
    [k \in DOMAIN st.place_devices \cup {<<p, a>>} |->
        IF k = <<p, a>> THEN 1 ELSE st.place_devices[k]]

\* everything the ledger st holds about address a
LedgerOf(st, a) ==
    LET OfA(r) == r.device_id = a
    IN [device      |-> IF a \in DOMAIN st.devices THEN {st.devices[a]} ELSE {},
        links       |-> [k \in {x \in DOMAIN st.place_devices : x[2] = a} |->
                            st.place_devices[k]],
        relocations |-> SelectSeq(st.relocations, OfA),
        seen        |-> SelectSeq(st.seen, OfA)]

\* the sighting ended in the handler of lines 252-256, or one of its store
\* operations raised and was rolled back
Failed(e) == e.raised \/ (e.faulted \ {"find_place"}) # {}

\* the sighting ran to its end and nothing raised
Completed(e) == ~e.raised /\ e.faulted = {}

\* the cycle is over, every sighting of its batch completed and its commit
\* succeeded
FaultFreeCycle ==
    CycleDone /\ faulted = {} /\ \A i \in 1..Len(log) : Completed(log[i])

\* the Seen row the i-th sighting of a fault-free cycle leaves in the ledger
SeenOf(i) == db.seen[Len(snapC.seen) + i]

----------------------------------------------------------------------------
(* C1: every sighting that is processed without a store fault appends      *)
(* exactly one Seen row, for the device and the place the fix resolved to  *)
(* or the place created for it, whichever branch it takes.                 *)
(* The code breaks this for a known device at a fix no place covers: the   *)
(* created place is bound to `new_place`, line 248 reads place.id of None. *)
C1_OneSeenRowPerSighting ==
    (SightingDone /\ last.faulted = {})
        => sess.seen = Append(snapS.seen,
                              SeenRow(last.address,
                                      IF last.branch = "relocated_new_place"
                                      THEN new_place ELSE place))

(* C2: a sighting whose processing failed part-way leaves none of its      *)
(* changes in the committed ledger when the cycle is over: what the ledger *)
(* holds about its device is what it held when the cycle began, and a      *)
(* cycle all of whose sightings failed has created no place.               *)
(* The helpers commit on their own, so the rollback cannot undo them.      *)
C2_FailedSightingLeavesNothing ==
    CycleDone
        => /\ \A i \in 1..Len(log) :
                Failed(log[i])
                    => LedgerOf(db, log[i].address) = LedgerOf(snapC, log[i].address)
           /\ (\A i \in 1..Len(log) : Failed(log[i])) => db.places = snapC.places

(* C3: when the cycle's commit succeeded, every sighting of the batch that *)
(* completed without an exception is in the committed ledger: its device   *)
(* is counted once more than before the cycle (once, if it is new) and its *)
(* Seen row is stored, whatever happened to the other sightings.           *)
(* The batch shares one session, so a later sighting's rollback discards   *)
(* the pending rows of the earlier ones.                                   *)
C3_RollbackSparesOtherSightings ==
    (CycleDone /\ faulted = {})
        => \A i \in 1..Len(log) :
              Completed(log[i])
                  => LET a == log[i].address
                     IN /\ a \in DOMAIN db.devices
                        /\ db.devices[a].times_seen =
                              IF a \in DOMAIN snapC.devices
                              THEN snapC.devices[a].times_seen + 1 ELSE 1
                        /\ \E k \in 1..Len(db.seen) :
                              /\ db.seen[k].device_id = a
                              /\ db.seen[k].timestamp = now

C5_RelocationRecorded ==
    (/\ SightingDone
     /\ last.faulted = {}
     /\ last.address \in DOMAIN snapS.devices
     /\ (Resolved = None \/ ~HasPlaceDevice(snapS, Resolved, last.address)))
        => /\ Len(db.relocations) = Len(snapS.relocations) + 1
           /\ SubSeq(db.relocations, 1, Len(snapS.relocations)) = snapS.relocations
           /\ db.relocations[Len(db.relocations)].device_id = last.address
           /\ db.relocations[Len(db.relocations)].timestamp = now

\* a known device was sighted where no place covers the fix, and its
\* Relocation row is committed
C5_Witness ==
    /\ SightingDone
    /\ last.faulted = {}
    /\ last.address \in DOMAIN snapS.devices
    /\ Resolved = None
    /\ Len(db.places) = Len(snapS.places) + 1
    /\ Len(db.relocations) = Len(snapS.relocations) + 1

(* C6: Device.times_seen counts the cycles that sighted the device and     *)
(* never decreases.  Cycle by cycle: when a cycle is over and its commit   *)
(* succeeded, every device of the committed ledger whose sighting in that  *)
(* cycle completed without an exception is counted exactly once more than  *)
(* before the cycle (once, if the cycle created it), and every device the  *)
(* cycle did not sight is counted as before.                               *)
(* The increment of a sighting that completed is lost when a later         *)
(* sighting of the batch rolls the shared session back.                    *)
C6_TimesSeenCountsCycles ==
    (CycleDone /\ faulted = {})
        => \A a \in DOMAIN db.devices :
              LET before == IF a \in DOMAIN snapC.devices
                            THEN snapC.devices[a].times_seen ELSE 0
                  mine   == {i \in 1..Len(log) : log[i].address = a}
              IN /\ db.devices[a].times_seen >= before
                 /\ mine = {} => db.devices[a].times_seen = before
                 /\ (\E i \in mine : Completed(log[i]))
                        => db.devices[a].times_seen = before + 1

(* C7: a sighting, processed without a store fault, of a device that was   *)
(* not known, at a fix no place covers, adds exactly: one Place of radius  *)
(* 50 centred on the fix, one Device with times_seen 1, one PlaceDevice    *)
(* row with times_seen 1 joining them, one Seen row; and no Relocation.    *)
(* The Place, the Device and the PlaceDevice row are committed by then,    *)
(* and the Seen row is when a cycle in which nothing raised ends.          *)
C7_NewDeviceNewPlace ==
    /\ FaultFreeCycle
          => /\ Len(db.seen) = Len(snapC.seen) + Len(log)
             /\ \A i \in 1..Len(log) :
                   log[i].branch = "new_device_new_place"
                       => /\ SeenOf(i).device_id = log[i].address
                          /\ SeenOf(i).timestamp = now
                          /\ SeenOf(i).place_id > Len(snapC.places)
                          /\ HasPlaceDevice(db, SeenOf(i).place_id, log[i].address)
    /\ (/\ SightingDone
        /\ last.faulted = {}
        /\ last.address \notin DOMAIN snapS.devices
        /\ Resolved = None)
        => LET a == last.address
               p == Len(snapS.places) + 1
           IN /\ sess.places = Append(snapS.places,
                                      [latitude  |-> geodata.latitude,
                                       longitude |-> geodata.longitude,
                                       radius    |-> 50])
              /\ DOMAIN sess.devices = DOMAIN snapS.devices \cup {a}
              /\ \A d \in DOMAIN snapS.devices : sess.devices[d] = snapS.devices[d]
              /\ sess.devices[a].times_seen = 1
              /\ sess.place_devices = WithLink(snapS, p, a)
              /\ sess.seen = Append(snapS.seen, SeenRow(a, p))
              /\ sess.relocations = snapS.relocations
              /\ db.places = sess.places
              /\ db.devices = sess.devices
              /\ db.place_devices = sess.place_devices

\* a new device was sighted where no place covers the fix, while the ledger
\* already held another place
C7_Witness ==
    /\ SightingDone
    /\ last.faulted = {}
    /\ last.address \notin DOMAIN snapS.devices
    /\ Resolved = None
    /\ Len(snapS.places) > 0
    /\ Len(sess.seen) = Len(snapS.seen) + 1

(* C8: a sighting, processed without a store fault, of a known device at a *)
(* fix whose resolved place already has a PlaceDevice row for it raises    *)
(* Device.times_seen by one and that row's times_seen by one, appends one  *)
(* Seen row, and creates no Place, no PlaceDevice and no Relocation.       *)
(* These changes are committed when a cycle in which nothing raised ends.  *)
C8_SamePlace ==
    /\ FaultFreeCycle
          => \A i \in 1..Len(log) :
                log[i].branch = "same_place"
                    => LET a == log[i].address
                           p == SeenOf(i).place_id
                       IN /\ SeenOf(i).device_id = a
                          /\ SeenOf(i).timestamp = now
                          /\ db.devices[a].times_seen = snapC.devices[a].times_seen + 1
                          /\ HasPlaceDevice(snapC, p, a)
                          /\ db.place_devices[<<p, a>>] = snapC.place_devices[<<p, a>>] + 1
                          /\ \A k \in DOMAIN db.place_devices :
                                (k[2] = a /\ k # <<p, a>>)
                                    => /\ k \in DOMAIN snapC.place_devices
                                       /\ db.place_devices[k] = snapC.place_devices[k]
    /\ (/\ SightingDone
        /\ last.faulted = {}
        /\ last.address \in DOMAIN snapS.devices
        /\ Resolved # None
        /\ HasPlaceDevice(snapS, Resolved, last.address))
        => LET a == last.address
               p == Resolved
           IN /\ DOMAIN sess.devices = DOMAIN snapS.devices
              /\ sess.devices[a].times_seen = snapS.devices[a].times_seen + 1
              /\ sess.place_devices =
                    [snapS.place_devices EXCEPT ![<<p, a>>] = @ + 1]
              /\ sess.seen = Append(snapS.seen, SeenRow(a, p))
              /\ sess.places = snapS.places
              /\ sess.relocations = snapS.relocations

\* a known device was sighted again in a place it is linked to
C8_Witness ==
    /\ SightingDone
    /\ last.faulted = {}
    /\ last.address \in DOMAIN snapS.devices
    /\ Resolved # None
    /\ HasPlaceDevice(snapS, Resolved, last.address)
    /\ sess.devices[last.address].times_seen = 2
    /\ sess.place_devices[<<Resolved, last.address>>] = 2

(* C9: a sighting, processed without a store fault, of a known device at a *)
(* fix no place covers commits exactly one new Place, one new PlaceDevice  *)
(* row with times_seen 1 for that place, and one new Relocation row, sets  *)
(* Device.geodata to the formatted fix, and leaves the earlier PlaceDevice *)
(* rows as they were.                                                      *)
C9_KnownDeviceNewPlace ==
    (/\ SightingDone
     /\ last.faulted = {}
     /\ last.address \in DOMAIN snapS.devices
     /\ Resolved = None)
        => LET a == last.address
               p == Len(snapS.places) + 1
           IN /\ db.places = Append(snapS.places,
                                    [latitude  |-> geodata.latitude,
                                     longitude |-> geodata.longitude,
                                     radius    |-> 50])
              /\ db.place_devices = WithLink(snapS, p, a)
              /\ db.relocations =
                    Append(snapS.relocations, RelocationRow(a, snapS.devices[a].geodata))
              /\ db.devices[a].geodata = FormatGeodata(geodata)

\* a known device, linked to an earlier place, was sighted where no place
\* covers the fix
C9_Witness ==
    /\ SightingDone
    /\ last.faulted = {}
    /\ last.address \in DOMAIN snapS.devices
    /\ Resolved = None
    /\ \E q \in 1..Len(snapS.places) : HasPlaceDevice(snapS, q, last.address)
    /\ db.devices[last.address].geodata # snapS.devices[last.address].geodata

(* C10: a sighting, processed without a store fault, of a known device at  *)
(* a fix inside an existing place to which it is not linked commits        *)
(* exactly one new Relocation row and exactly one new PlaceDevice row, for *)
(* that place and device, and leaves every other PlaceDevice row, the      *)
(* device's earlier ones and their times_seen included, unchanged.         *)
C10_RelocatedToExistingPlace ==
    (/\ SightingDone
     /\ last.faulted = {}
     /\ last.address \in DOMAIN snapS.devices
     /\ Resolved # None
     /\ ~HasPlaceDevice(snapS, Resolved, last.address))
        => LET a == last.address
           IN /\ db.relocations =
                    Append(snapS.relocations, RelocationRow(a, snapS.devices[a].geodata))
              /\ db.place_devices = WithLink(snapS, Resolved, a)
              /\ db.places = snapS.places

\* the device was linked to a place A whose radius does not reach the fix,
\* and has been sighted inside another existing place B
C10_Witness ==
    /\ SightingDone
    /\ last.faulted = {}
    /\ last.address \in DOMAIN snapS.devices
    /\ Resolved # None
    /\ ~HasPlaceDevice(snapS, Resolved, last.address)
    /\ \E q \in 1..Len(snapS.places) :
          /\ HasPlaceDevice(snapS, q, last.address)
          /\ distance_between(geodata, snapS.places[q]) > snapS.places[q].radius
    /\ HasPlaceDevice(db, Resolved, last.address)

----------------------------------------------------------------------------
(* The scheduler's claims, checked in SchedSpec. *)

\* the scheduler fields a call of start_scanning or stop_scanning may change
schedFields == <<is_scanning, scan_task, tasks>>

\* the last call was start_scanning: "start" when it found the scheduler
\* Idle, "start_again" when it found it Scanning
Started == ctl \in {"start", "start_again"}

(* C11: when the discovery provider fails during a cycle run by the scan   *)
(* loop, the loop ends: once that cycle is over the scheduler is Idle      *)
(* (is_running() is False, no task is left) and a "scanner_error" event    *)
(* has been published.                                                     *)
(* scan() catches the exception itself at line 265, so the loop never sees *)
(* it and goes on scanning.                                                *)
C11_DiscoveryFaultEndsLoop ==
    (pc = "idle" /\ faulted = {"discover_raises"})
        => /\ ~is_scanning
           /\ tasks = 0
           /\ \E i \in 1..Len(events) : events[i] = "scanner_error"

(* C12: stop_scanning called while Scanning cancels the task, waits for it *)
(* to end and leaves the scheduler Idle: while the last call is a stop     *)
(* that has returned, is_running() is False, no task is left, no cycle is  *)
(* in progress and none starts; stop_scanning returns only once the task   *)
(* is done; and called while Idle it changes nothing.                      *)
C12_StopLeavesIdle ==
    /\ [](ctl = "stop" => (~is_scanning /\ tasks = 0 /\ scan_task = "None" /\ pc = "idle"))
    /\ [][cycles' # cycles => (Started /\ is_scanning)]_vars
    /\ [][(ctl = "stopping" /\ ctl' = "stop") => (scan_task = "done" /\ tasks = 0)]_vars
    /\ [][(ctl \in {"none", "stop"} /\ ctl' = "stop")
            => UNCHANGED <<schedFields, db, sess, pc, cycles, events>>]_vars

\* stop_scanning has returned after interrupting a cycle that had already
\* committed rows
C12_Witness ==
    /\ ctl = "stop"
    /\ cycles = 2
    /\ Len(log) = 0
    /\ Len(db.places) > Len(snapC.places)

(* C13: start_scanning called while Scanning launches nothing and changes  *)
(* nothing; called while Idle it sets the state to Scanning and launches   *)
(* exactly one task; at no time is more than one scan task alive, and      *)
(* while the last call is a start exactly one is.                          *)
C13_StartLaunchesOneTask ==
    /\ [](tasks <= 1)
    /\ [](Started => (is_scanning /\ tasks = 1 /\ scan_task = "pending"))
    /\ [][(ctl # "start_again" /\ ctl' = "start_again")
            => (is_scanning /\ UNCHANGED <<schedFields, pc, cycles, db, sess>>)]_vars
    /\ [][(ctl # "start" /\ ctl' = "start")
            => (~is_scanning /\ is_scanning' /\ tasks = 0 /\ tasks' = 1
                /\ scan_task' = "pending")]_vars

\* the scheduler was started, stopped, started and started once more, and
\* the one task alive is in the middle of a cycle
C13_Witness ==
    /\ ctl = "start_again"
    /\ tasks = 1
    /\ cycles = 2
    /\ snapC = EmptyStore
    /\ pc = "record_seen"

(* C14: cancelling never interrupts the processing of a sighting: when     *)
(* stop_scanning has returned and no exception was raised, the committed   *)
(* ledger holds no partially applied sighting: every Device and every      *)
(* Place has a PlaceDevice row.                                            *)
(* CancelledError is raised at whichever await the task is suspended at,   *)
(* also between two helpers of one sighting, each of which has committed.  *)
C14_CancelOnlyAtCycleBoundary ==
    (ctl = "stop" /\ faults = 0)
        => /\ \A a \in DOMAIN db.devices :
                 \E p \in 1..Len(db.places) : HasPlaceDevice(db, p, a)
           /\ \A p \in 1..Len(db.places) :
                 \E a \in DOMAIN db.devices : HasPlaceDevice(db, p, a)

----------------------------------------------------------------------------
(* The missing fix, checked in NoFixSpec. *)

(* C15: when the location provider returns (None, None) the missing fix is *)
(* not used as a location: the fix a cycle works with always has           *)
(* coordinates unless no place is resolved from it, and no Place and no    *)
(* Relocation row (hence no PlaceDevice row either) is created from a fix  *)
(* without coordinates.                                                    *)
(* _get_cached_geodata caches GeoData(None, None) as it caches any fix,    *)
(* and scan() creates a Place from it.                                     *)
C15_MissingFixNotUsed ==
    /\ \A p \in 1..Len(db.places) : ~Missing(db.places[p])
    /\ \A k \in 1..Len(db.relocations) :
          db.relocations[k].new_geodata # FormatGeodata(NoFix)

----------------------------------------------------------------------------
(* The Geo-Cache, checked in CacheSpec. *)

\* the location provider was called in this step and raised
ProviderRaised == "location_raises" \in faulted'

(* C16: a fix request made within 60 seconds of the last provider fetch    *)
(* does not call the provider and returns the cached fix, leaving the      *)
(* cache and its timestamp alone; one made more than 60 seconds after it   *)
(* calls the provider and replaces the cache and its timestamp; the first  *)
(* request after construction always calls the provider.                   *)
C16_GeoCacheSixtySeconds ==
    /\ [][cycles' # cycles
            => IF now' - last_gps_fetch <= 60
               THEN /\ UNCHANGED <<cached_geodata, last_gps_fetch>>
                    /\ geodata' = cached_geodata
                    /\ ~ProviderRaised
               ELSE \/ /\ last_gps_fetch' = now'
                       /\ cached_geodata' \in Fixes
                       /\ geodata' = cached_geodata'
                    \/ /\ ProviderRaised
                       /\ UNCHANGED <<cached_geodata, last_gps_fetch>>]_vars
    /\ [][(cycles = 0 /\ cycles' = 1) => (last_gps_fetch' = now' \/ ProviderRaised)]_vars

\* a request exactly 60 seconds after the last fetch was served from the cache
C16_Witness ==
    /\ cycles = 2
    /\ pc = "commit"
    /\ now - last_gps_fetch = 60
    /\ geodata = cached_geodata
    /\ geodata \in Fixes

----------------------------------------------------------------------------
(* _find_place_for_device on its own: a store of up to three places, of    *)
(* different radii, and a fix; the lookup is called twice with no write to *)
(* the store in between.                                                   *)

MaxPlaces == 3

\* the places of the store: Place.radius is a column of its own (ble_dto.py
\* line 48), so that two places need not have the same radius
PlaceChoices ==
    {[latitude |-> 0, longitude |-> x, radius |-> r] : x \in {0, 30, 80}, r \in {30, 50}}

RECURSIVE PlaceListsOf(_)
PlaceListsOf(n) ==
    IF n = 0 THEN {<<>>}
    ELSE LET shorter == PlaceListsOf(n - 1)
         IN shorter \cup {Append(l, p) : l \in {k \in shorter : Len(k) = n - 1},
                                         p \in PlaceChoices}

PlaceLists == PlaceListsOf(MaxPlaces)

FindInit ==
    /\ \E l \in PlaceLists : db = [EmptyStore EXCEPT !.places = l]
    /\ sess = db
    /\ pc = "find_place"
    /\ devices = <<>>
    /\ idx = 1
    /\ geodata \in Fixes
    /\ place = None
    /\ new_place = None
    /\ cached_geodata = geodata
    /\ last_gps_fetch = datetime_min
    /\ now = datetime_min + 2 * CacheSeconds
    /\ cycles = 0
    /\ faults = 0
    /\ branch = "none"
    /\ faulted = {}
    /\ snapS = EmptyStore
    /\ snapC = EmptyStore
    /\ log = <<>>
    /\ is_scanning = FALSE
    /\ scan_task = "None"
    /\ tasks = 0
    /\ events = <<>>
    /\ ctl = "none"
    /\ report = <<>>

\* one call of _find_place_for_device(session, geodata): the select of line
\* 305 may raise, and the handler of line 317 then returns None
find_place_call(found, find_fails) ==
    /\ IF find_fails THEN RaiseFirst("find_place") ELSE NoRaise
    /\ UNCHANGED <<db, sess, devices, idx, geodata, cached_geodata, last_gps_fetch,
                   now, cycles, branch, snapS, snapC, log>>
    /\ UNCHANGED hostVars

find_place ==
    /\ pc = "find_place"
    /\ \E find_fails \in BOOLEAN, found \in Lookups(sess, geodata) :
         /\ find_place_call(found, find_fails)
         /\ place' = IF find_fails THEN None ELSE found
    /\ pc' = "find_place_again"
    /\ UNCHANGED new_place

find_place_again ==
    /\ pc = "find_place_again"
    /\ \E find_fails \in BOOLEAN, found \in Lookups(sess, geodata) :
         /\ find_place_call(found, find_fails)
         /\ new_place' = IF find_fails THEN None ELSE found
    /\ pc' = "found"
    /\ UNCHANGED place

FindNext == find_place \/ find_place_again

FindSpec == FindInit /\ [][FindNext]_vars

\* place i of the store covers the fix: the distance is at most its radius
Covers(i) == distance_between(geodata, db.places[i]) <= db.places[i].radius

NoStoreFault == faulted = {} /\ \A i \in 1..Len(log) : log[i].faulted = {}

\* C18: a cycle whose fix no place of the ledger covered when it began, and
\* whose batch has two or more sightings, creates exactly one Place, and
\* every device of the batch has a PlaceDevice row for that one place.
C18_OnePlacePerBatch ==
    (CycleDone /\ NoStoreFault /\ Len(log) >= 2
        /\ find_place_for_device(snapC, geodata) = None)
        => /\ Len(db.places) = Len(snapC.places) + 1
           /\ db.places[Len(db.places)] = NewPlace(geodata)
           /\ \A i \in 1..Len(log) :
                <<Len(db.places), log[i].address>> \in DOMAIN db.place_devices

\* the second cycle sighted two known devices at a fix that no place covered:
\* one more place than before, and both devices are linked to it
C18_Witness ==
    /\ CycleDone /\ NoStoreFault /\ Len(log) = 2
    /\ find_place_for_device(snapC, geodata) = None
    /\ Len(snapC.places) = 1 /\ Len(db.places) = 2
    /\ \A i \in 1..2 : log[i].address \in DOMAIN snapC.devices
    /\ \A i \in 1..2 : <<2, log[i].address>> \in DOMAIN db.place_devices

----------------------------------------------------------------------------
(* The reports: read-only queries over the ledger.  The ledgers they are   *)
(* applied to hold two devices, the places of the three fixes, and any     *)
(* Seen rows, or any PlaceDevice rows, over them.                          *)

MaxSeen == 3

\* the signatures scan() stores: None for a device that advertises nothing
Signatures == {gatt_signature(u) : u \in {<<>>, <<Uuid180f>>, <<Uuid180f, Uuid180a>>}}

\* the ledger with both devices and MaxPlaces places, and nothing else
RECURSIVE WithPlaces(_)
WithPlaces(n) ==
    IF n = 0
    THEN LET a1 == CHOOSE a \in Addresses : TRUE
             a2 == CHOOSE a \in Addresses : a # a1
         IN AddDevice(AddDevice(EmptyStore, a1, GeoData(0, 0), datetime_min),
                      a2, GeoData(0, 0), datetime_min)
    ELSE AddPlace(WithPlaces(n - 1), GeoData(0, 60 * (n - 1)))

PlaceIds == 1..MaxPlaces

\* the ledgers with at most n Seen rows, of increasing timestamps
RECURSIVE SeenLedgers(_)
SeenLedgers(n) ==
    IF n = 0 THEN {WithPlaces(MaxPlaces)}
    ELSE LET fewer == SeenLedgers(n - 1)
         IN fewer \cup {AddSeen(st, a, p, 10 * n, -60, sig) :
                           st \in {x \in fewer : Len(x.seen) = n - 1},
                           a \in Addresses, p \in 1..2, sig \in Signatures}

\* the ledgers with any set of PlaceDevice rows
LinkLedgers ==
    {[WithPlaces(MaxPlaces) EXCEPT !.place_devices = [k \in links |-> 1]] :
        links \in SUBSET (PlaceIds \X Addresses)}

\* Seen.gatt_signature.isnot(None) without its effect
isnot_None_Dropped(sig) == TRUE

\* Seen.gatt_signature.isnot(None) (line 692)
isnot_None(sig) == sig # <<>>

\* a grouping that takes the first run of consecutive rows of a signature for
\* all of its rows
SeenWith_FirstRun(st, sig) ==
    LET at    == {i \in DOMAIN st.seen : st.seen[i].gatt_signature = sig}
        InRun(i) == \A j \in First(at)..i : j \in at
        run   == {i \in at : InRun(i)}
    IN IF at = {} THEN <<>> ELSE SubSeq(st.seen, First(at), First(at) + Cardinality(run) - 1)

\* the Seen rows of signature sig
SeenWith(st, sig) ==
    LET Has(r) == r.gatt_signature = sig
    IN SelectSeq(st.seen, Has)

PlacesOf(rows) == {rows[i].place_id : i \in DOMAIN rows}

\* select gatt_signature where it is not None group by gatt_signature
\* having count(distinct place_id) > 1 (lines 690-696)
gatt_subquery(st) ==
    {sig \in {st.seen[i].gatt_signature : i \in DOMAIN st.seen} :
        isnot_None(sig) /\ Cardinality(PlacesOf(SeenWith(st, sig))) > 1}

\* select Seen where gatt_signature in gatt_subquery (lines 699-707)
seen_records(st) ==
    LET In(r) == r.gatt_signature \in gatt_subquery(st)
    IN SelectSeq(st.seen, In)

\* gatt_groups[seen.gatt_signature].append(seen) (lines 718-720)
gatt_groups(st) ==
    LET records == seen_records(st)
        Of(sig) == LET Has(r) == r.gatt_signature = sig IN SelectSeq(records, Has)
    IN [sig \in {records[i].gatt_signature : i \in DOMAIN records} |-> Of(sig)]

\* what the report says of one Seen row (lines 729-742)
Entry(r) == [device_id |-> r.device_id, place_id |-> r.place_id, timestamp |-> r.timestamp]

\* the groups the report writes out (lines 722-742)
gatt_report(st) ==
    LET groups == gatt_groups(st)
    IN {[gatt_signature |-> sig,
         entries        |-> [i \in DOMAIN groups[sig] |-> Entry(groups[sig][i])]] :
           sig \in {x \in DOMAIN groups : Cardinality(PlacesOf(groups[x])) > 1}}

\* fetch_shared_devices(session, with_gatt_check=True): the places of the
\* same Seen rows, under the id of their device (lines 471-481)
shared_devices_with_gatt_check(st) ==
    LET records == seen_records(st)
        Of(a) == LET By(r) == r.device_id = a IN SelectSeq(records, By)
    IN [a \in {records[i].device_id : i \in DOMAIN records} |->
           [i \in DOMAIN Of(a) |-> Of(a)[i].place_id]]

\* a query of a report ends: with its result, or in the handler that logs
\* the exception and reports nothing
Reported(result, nothing, query_fails, to) ==
    /\ IF query_fails THEN RaiseFirst("report") ELSE NoRaise
    /\ report' = IF query_fails THEN nothing ELSE result
    /\ pc' = to
    /\ UNCHANGED <<db, sess, devices, idx, geodata, place, new_place, cached_geodata,
                   last_gps_fetch, now, cycles, branch, snapS, snapC, log>>
    /\ UNCHANGED <<is_scanning, scan_task, tasks, events, ctl>>

ReportInit(ledgers) ==
    /\ db \in ledgers
    /\ sess = db
    /\ pc = "report"
    /\ devices = <<>>
    /\ idx = 1
    /\ geodata = NoGeoData
    /\ place = None
    /\ new_place = None
    /\ cached_geodata = NoGeoData
    /\ last_gps_fetch = datetime_min
    /\ now = datetime_min + 2 * CacheSeconds
    /\ cycles = 0
    /\ faults = 0
    /\ branch = "none"
    /\ faulted = {}
    /\ snapS = EmptyStore
    /\ snapC = EmptyStore
    /\ log = <<>>
    /\ is_scanning = FALSE
    /\ scan_task = "None"
    /\ tasks = 0
    /\ events = <<>>
    /\ ctl = "none"
    /\ report = <<>>

report_devices_seen_in_multiple_places_with_gatt_check ==
    /\ pc = "report"
    /\ \E query_fails \in BOOLEAN :
         Reported(gatt_report(db), {}, query_fails, "reported")

fetch_shared_devices_with_gatt_check ==
    /\ pc = "reported"
    /\ \E query_fails \in BOOLEAN :
         Reported(shared_devices_with_gatt_check(db), <<>>, query_fails, "fetched")

GattReportNext ==
    \/ report_devices_seen_in_multiple_places_with_gatt_check
    \/ fetch_shared_devices_with_gatt_check

GattReportInit == ReportInit(SeenLedgers(MaxSeen))

GattReportSpec == GattReportInit /\ [][GattReportNext]_vars

\* Seen row i has a fingerprint, and a Seen row of the same fingerprint is
\* at another place
Correlated(i) ==
    /\ db.seen[i].gatt_signature # <<>>
    /\ \E j \in DOMAIN db.seen :
         /\ db.seen[j].gatt_signature = db.seen[i].gatt_signature
         /\ db.seen[j].place_id # db.seen[i].place_id

\* the report has Seen row i, under its fingerprint
ReportedRow(i) ==
    \E g \in report :
        /\ g.gatt_signature = db.seen[i].gatt_signature
        /\ \E k \in DOMAIN g.entries : g.entries[k] = Entry(db.seen[i])

----------------------------------------------------------------------------
(* The multi-place report. *)

\* having count(place_id) >= 1
having_count_AtLeastOne(n) == n >= 1

\* having(func.count(PlaceDevice.place_id) > 1) (lines 600 and 489)
having_count(n) == n > 1

\* the PlaceDevice rows of device a
LinksOf(st, a) == {k \in DOMAIN st.place_devices : k[2] = a}

\* select device_id from place_devices group by device_id having
\* count(place_id) > 1 (lines 597-602)
subquery(st) ==
    {a \in {k[2] : k \in DOMAIN st.place_devices} :
        having_count(Cardinality(LinksOf(st, a)))}

\* a set of place ids as a list, in the order of the ids
RECURSIVE InOrder(_)
InOrder(ids) ==
    IF ids = {} THEN <<>> ELSE <<First(ids)>> \o InOrder(ids \ {First(ids)})

\* [pd.place for pd in device.places] (lines 624 and 505)
device_places(st, a) == InOrder({k[1] : k \in LinksOf(st, a)})

\* select Device where id in subquery (lines 605-613), and what the report
\* writes out for each (lines 621-630)
multi_place_report(st) ==
    {[device_id |-> a, places |-> device_places(st, a)] :
        a \in DOMAIN st.devices \cap subquery(st)}

\* fetch_shared_devices(session, with_gatt_check=False) (lines 485-509)
shared_devices(st) ==
    [a \in DOMAIN st.devices \cap subquery(st) |-> device_places(st, a)]

report_devices_seen_in_multiple_places ==
    /\ pc = "report"
    /\ \E query_fails \in BOOLEAN :
         Reported(multi_place_report(db), {}, query_fails, "reported")

fetch_shared_devices ==
    /\ pc = "reported"
    /\ \E query_fails \in BOOLEAN :
         Reported(shared_devices(db), <<>>, query_fails, "fetched")

MultiPlaceNext == report_devices_seen_in_multiple_places \/ fetch_shared_devices

MultiPlaceInit == ReportInit(LinkLedgers)

MultiPlaceSpec == MultiPlaceInit /\ [][MultiPlaceNext]_vars

\* the places device a has a PlaceDevice row for
LinkedPlaces(a) == {p \in PlaceIds : <<p, a>> \in DOMAIN db.place_devices}

----------------------------------------------------------------------------
(* Two addresses of one fingerprint: the pipeline and the fingerprint      *)
(* report together.  Every batch holds both addresses, which advertise    *)
(* the same service uuids; the report is asked for between two cycles.     *)

TwinUuids == <<Uuid180f, Uuid180a>>

Twin(a) == [address |-> a, rssi |-> -60, uuids |-> TwinUuids]

TwinBatches ==
    {b \in {<<Twin(a1), Twin(a2)>> : a1 \in Addresses, a2 \in Addresses} :
        b[1].address # b[2].address}

twin_scan_begin == scan_begin_with(TwinBatches)

\* the fingerprint report over the committed ledger, between two cycles
twin_report ==
    /\ pc = "idle"
    /\ cycles > 0
    /\ \E query_fails \in BOOLEAN :
         Reported(gatt_report(db), {}, query_fails, "reported")

TwinNext == twin_scan_begin \/ scan_steps \/ twin_report

TwinSpec == Init /\ [][TwinNext]_vars

(* C21: two addresses that advertise the same uuids were each sighted once *)
(* at each of two places, one cycle per place, and nothing raised a store  *)
(* fault: the fingerprint report has one group, under their fingerprint,   *)
(* with all four sightings.                                                *)
(* The first sighting of the second cycle is a known device at a fix no    *)
(* place covers: it appends no Seen row (C1), and the report has three     *)
(* entries.                                                                *)
C21_TwinsReportedTogether ==
    (pc = "reported" /\ faults = 0 /\ cycles = 2 /\ Len(db.places) = 2)
        => /\ Cardinality(report) = 1
           /\ \A g \in report :
                /\ g.gatt_signature = gatt_signature(TwinUuids)
                /\ Len(g.entries) = 4

----------------------------------------------------------------------------
(* The fingerprint report and the order of the Seen rows: the rows of a    *)
(* ledger are stored again in another order (snapS keeps the first order)  *)
(* before the report is asked for.                                         *)

\* the orders in which n rows may be stored
Orders(n) == {f \in [1..n -> 1..n] : \A i, j \in 1..n : f[i] = f[j] => i = j}

\* the ledger st with its Seen rows in the order f
Reordered(st, f) == [st EXCEPT !.seen = [i \in DOMAIN st.seen |-> st.seen[f[i]]]]

store_in_order ==
    /\ pc = "report"
    /\ \E f \in Orders(Len(db.seen)) :
         /\ db' = Reordered(db, f)
         /\ sess' = db'
    /\ snapS' = db
    /\ pc' = "stored"
    /\ UNCHANGED <<devices, idx, geodata, place, new_place, cached_geodata, last_gps_fetch,
                   now, cycles, faults, branch, faulted, snapC, log>>
    /\ UNCHANGED hostVars

report_in_order ==
    /\ pc = "stored"
    /\ \E query_fails \in BOOLEAN :
         Reported(gatt_report(db), {}, query_fails, "reported")

ReorderNext == store_in_order \/ report_in_order

ReorderInit == ReportInit(SeenLedgers(MaxSeen))

ReorderSpec == ReorderInit /\ [][ReorderNext]_vars

\* the groups of a report: its fingerprints, each with the set of its entries
\* and their number
Groups(rep) ==
    {[gatt_signature |-> g.gatt_signature,
      rows           |-> {g.entries[k] : k \in DOMAIN g.entries},
      count          |-> Len(g.entries)] : g \in rep}

\* C22: the groups of the fingerprint report (the fingerprints reported and
\* the rows under each) are those of the report over the same Seen rows in
\* any other order.
C22_GroupsIgnoreRowOrder ==
    (pc = "reported" /\ faults = 0)
        => Groups(report) = Groups(gatt_report(snapS))

\* three rows were stored in another order, a row without fingerprint now
\* between the two rows of the reported fingerprint
C22_Witness ==
    /\ pc = "reported" /\ faults = 0
    /\ Len(db.seen) = 3
    /\ db.seen # snapS.seen
    /\ db.seen[2].gatt_signature = <<>>
    /\ Cardinality(report) = 1
    /\ \A g \in report : Len(g.entries) = 2

----------------------------------------------------------------------------
(* What a reader of the committed ledger may see while a cycle runs,       *)
(* checked in Spec: a report opens a session of its own and reads db.      *)

\* the number of rows of a sequence that belong to device a
RowsOf(rows, a) == Cardinality({i \in DOMAIN rows : rows[i].device_id = a})

(* C23: every committed state of the ledger, which a report that runs      *)
(* during a cycle may read, holds each sighting completely or not at all:  *)
(* as long as nothing raised, no Place is without a PlaceDevice row, and   *)
(* no device has PlaceDevice rows beyond its first without a Relocation    *)
(* row for each of them.                                                   *)
(* The helpers commit one by one, so the committed ledger passes through   *)
(* the states between them.                                                *)
C23_ReportReadsWholeSightings ==
    faults = 0
        => /\ \A p \in 1..Len(db.places) :
                 \E a \in DOMAIN db.devices : HasPlaceDevice(db, p, a)
           /\ \A a \in DOMAIN db.devices :
                 Cardinality(LinksOf(db, a)) <= 1 + RowsOf(db.relocations, a)

----------------------------------------------------------------------------
(* The counter of the join row, checked in Spec with every fault. *)

\* the Seen rows the cycle has committed for device a at place p by a
\* sighting that took the same-place branch
SamePlaceSeen(a, p) ==
    {i \in (Len(snapC.seen) + 1)..Len(db.seen) :
        /\ db.seen[i].device_id = a
        /\ db.seen[i].place_id = p
        /\ \E j \in 1..Len(log) : log[j].address = a /\ log[j].branch = "same_place"}

\* C24: PlaceDevice.times_seen of a (device, place) pair never decreases, no
\* PlaceDevice row is deleted, a new row counts 1, and when a cycle is over
\* the counter of every row has grown by the number of Seen rows the cycle
\* committed for that pair in the same-place branch: it is 1 plus the number
\* of the pair's same-place Seen rows.
C24_PlaceDeviceCounter ==
    /\ [][\A k \in DOMAIN db.place_devices :
             /\ k \in DOMAIN db'.place_devices
             /\ db'.place_devices[k] >= db.place_devices[k]]_vars
    /\ [](CycleDone =>
            \A k \in DOMAIN db.place_devices :
               db.place_devices[k] =
                  (IF k \in DOMAIN snapC.place_devices THEN snapC.place_devices[k] ELSE 1)
                  + Cardinality(SamePlaceSeen(k[2], k[1])))

\* a device was sighted again at its place, in a cycle that linked another
\* pair for the first time: the first one's counter is 2, with one
\* same-place Seen row
C24_Witness ==
    /\ CycleDone /\ cycles = 2
    /\ \E k \in DOMAIN db.place_devices :
         /\ db.place_devices[k] = 2
         /\ Cardinality(SamePlaceSeen(k[2], k[1])) = 1
    /\ \E k \in DOMAIN db.place_devices : k \notin DOMAIN snapC.place_devices

(* C25: in every committed state of the ledger, every Device (each of them *)
(* was created from a sighting at a fix with coordinates) has at least one *)
(* PlaceDevice row.                                                        *)
(* _create_new_place commits the flushed Device together with the Place,   *)
(* before _add_device_to_place adds the PlaceDevice row; when that helper  *)
(* raises, the row is never added.                                         *)
C25_DeviceHasPlaceDevice ==
    \A a \in DOMAIN db.devices : LinksOf(db, a) # {}

----------------------------------------------------------------------------
(* Faults and the scan loop, checked in SchedSpec. *)

----------------------------------------------------------------------------
(* _record_seen and the sighting's unit of work, checked in Spec. *)

(* C27: an exception inside _record_seen is not swallowed: it ends the     *)
(* sighting in scan()'s handler, and when the cycle is over the committed  *)
(* ledger holds about the device of such a sighting what it held when the  *)
(* cycle began.                                                            *)
(* _record_seen catches the exception itself, and the rows the helpers     *)
(* committed before it stay.                                               *)
C27_RecordSeenFailureAborts ==
    CycleDone
        => \A i \in 1..Len(log) :
              "record_seen" \in log[i].faulted
                  => /\ log[i].raised
                     /\ LedgerOf(db, log[i].address) = LedgerOf(snapC, log[i].address)

----------------------------------------------------------------------------
(* The append-only tables, checked in Spec. *)

\* the sequence old is the beginning of the sequence new
Extends(new, old) == Len(new) >= Len(old) /\ SubSeq(new, 1, Len(old)) = old

(* C28: Seen and Relocation are append-only: no step removes or alters a   *)
(* committed Seen or Relocation row, and when a cycle whose final commit   *)
(* succeeded is over, the committed ledger holds the Seen row of every     *)
(* sighting of the batch that completed without an exception.              *)
(* The Seen rows are pending in the batch's one session until the final    *)
(* commit, and the rollback of a later sighting discards them (C3).        *)
C28_AppendOnly ==
    /\ [][Extends(db'.seen, db.seen) /\ Extends(db'.relocations, db.relocations)]_vars
    /\ []((CycleDone /\ faulted = {})
            => \A i \in 1..Len(log) :
                  Completed(log[i])
                      => \E k \in (Len(snapC.seen) + 1)..Len(db.seen) :
                            /\ db.seen[k].device_id = log[i].address
                            /\ db.seen[k].timestamp = now)

----------------------------------------------------------------------------
(* The Relocation rows, checked in Spec with every fault. *)

\* the step commits a Relocation row
Relocates == db'.relocations # db.relocations

\* C29: every Relocation row is appended for the device of the current
\* sighting, with old_geodata the Device.geodata held before the sighting
\* and new_geodata the formatted fix of the cycle, and the same commit sets
\* Device.geodata to new_geodata; when the sighting is over Device.geodata
\* still equals it.  This holds in both relocation branches.
C29_RelocationGeodata ==
    /\ [][Relocates =>
            LET a == cur.address
            IN /\ branch \in {"relocated", "relocated_new_place"}
               /\ db'.relocations =
                     Append(db.relocations, RelocationRow(a, snapS.devices[a].geodata))
               /\ db.devices[a].geodata = snapS.devices[a].geodata
               /\ db'.devices[a].geodata = FormatGeodata(geodata)]_vars
    /\ []((SightingDone /\ Len(db.relocations) > Len(snapS.relocations))
            => /\ Len(db.relocations) = Len(snapS.relocations) + 1
               /\ db.devices[last.address].geodata
                     = db.relocations[Len(db.relocations)].new_geodata
               /\ db.relocations[Len(db.relocations)].new_geodata = FormatGeodata(geodata))

\* two known devices were sighted at a fix no place covered: the first
\* relocated to a new place, the second to the place just created, each
\* from the geodata it had before
C29_Witness ==
    /\ SightingDone /\ Len(log) = 2
    /\ log[1].branch = "relocated_new_place"
    /\ log[2].branch = "relocated"
    /\ Len(db.relocations) = 2
    /\ \A k \in 1..2 :
         /\ db.relocations[k].old_geodata # db.relocations[k].new_geodata
         /\ db.devices[db.relocations[k].device_id].geodata = db.relocations[k].new_geodata

----------------------------------------------------------------------------
(* A scanner constructed over the ledger an earlier run has left: a device *)
(* that was first seen at fix (0, 0) and has relocated to (0, 60), where a *)
(* place was created for it.  The second sighting left no Seen row (C1).   *)

VisitedAddress == "AA:BB:CC:DD:EE:FF"

EarlierRun == datetime_min + 2 * CacheSeconds

VisitedTwo ==
    LET a  == VisitedAddress
        t1 == EarlierRun
        t2 == EarlierRun + 70
        g1 == GeoData(0, 0)
        g2 == GeoData(0, 60)
        s1 == AddSeen(AddPlaceDevice(AddPlace(AddDevice(EmptyStore, a, g1, t1), g1), 1, a),
                      a, 1, t1, -60, gatt_signature(Advertised(a)))
        s2 == AddPlaceDevice(AddPlace(TouchDevice(s1, a, t2), g2), 2, a)
    IN AddRelocation(s2, a, g2, t2)

RestartInit ==
    /\ db = VisitedTwo
    /\ sess = db
    /\ pc = "idle"
    /\ devices = <<>>
    /\ idx = 1
    /\ geodata = NoGeoData
    /\ place = None
    /\ new_place = None
    /\ cached_geodata = NoGeoData
    /\ last_gps_fetch = datetime_min
    /\ now = EarlierRun + 2 * 70
    /\ cycles = 0
    /\ faults = 0
    /\ branch = "none"
    /\ faulted = {}
    /\ snapS = db
    /\ snapC = db
    /\ log = <<>>
    /\ is_scanning = FALSE
    /\ scan_task = "None"
    /\ tasks = 0
    /\ events = <<>>
    /\ ctl = "none"
    /\ report = <<>>

restart_scan_begin == scan_begin_with(Batches)

RestartNext == restart_scan_begin \/ scan_steps

RestartSpec == RestartInit /\ [][RestartNext]_vars

\* C30: a sighting of a device that was not known, and a sighting that took
\* the same-place branch, commit no Relocation row; so does every sighting,
\* whose lookup did not raise, of a known device at a fix that resolves to a
\* place the device is linked to, also when the device has been elsewhere
\* since.
C30_NoRelocationWithoutMove ==
    /\ [][Relocates =>
            /\ branch \notin {"new_device", "new_device_new_place", "same_place"}
            /\ cur.address \in DOMAIN snapS.devices]_vars
    /\ []((/\ SightingDone
           /\ \/ last.branch \in {"new_device", "new_device_new_place", "same_place"}
              \/ last.address \notin DOMAIN snapS.devices
              \/ /\ "find_place" \notin last.faulted
                 /\ Resolved # None
                 /\ HasPlaceDevice(snapS, Resolved, last.address))
            => db.relocations = snapS.relocations)

\* the device that had relocated from the first place to the second is
\* sighted at the first again: same-place branch, and its one Relocation
\* row is still the only one
C30_Witness ==
    /\ SightingDone /\ last.faulted = {}
    /\ last.address = VisitedAddress
    /\ last.branch = "same_place"
    /\ place = 1
    /\ db.devices[VisitedAddress].geodata = FormatGeodata(GeoData(0, 60))
    /\ Len(db.relocations) = 1
    /\ Len(sess.seen) > Len(snapS.seen)

----------------------------------------------------------------------------
(* The join rows, checked in Spec with every fault. *)

\* the (place, device) pair the current sighting is about to link
LinkPair == <<IF pc = "update_place_device" THEN place ELSE LinkTarget, cur.address>>

\* C31: there is at most one PlaceDevice row per (place, device) pair: the
\* pipeline inserts a PlaceDevice row only for a pair that has none, in the
\* session as in the committed ledger, and no step deletes a committed row.
C31_OnePlaceDevicePerPair ==
    /\ [][(pc \in {"update_place_device", "add_device_to_place"} /\ LinkPair[1] # None)
            => /\ LinkPair \notin DOMAIN sess.place_devices
               /\ LinkPair \notin DOMAIN db.place_devices
               /\ DOMAIN db'.place_devices \subseteq DOMAIN db.place_devices \cup {LinkPair}]_vars
    /\ [][DOMAIN db.place_devices \subseteq DOMAIN db'.place_devices]_vars

\* a device that has a PlaceDevice row at one place was linked to another
\* place: one row for each of the two pairs
C31_Witness ==
    /\ SightingDone /\ last.faulted = {}
    /\ last.branch = "relocated"
    /\ Cardinality(LinksOf(db, last.address)) = 2
    /\ \A k \in LinksOf(db, last.address) : db.place_devices[k] = 1

----------------------------------------------------------------------------
(* The places, checked in Spec with every fault. *)

\* C32: no step changes the latitude, longitude or radius of a committed
\* Place or removes one: a step leaves the committed places as they are or
\* appends one place, centred on the fix of the cycle with radius 50.
C32_PlacesImmutable ==
    [][/\ Extends(db'.places, db.places)
       /\ Len(db'.places) <= Len(db.places) + 1
       /\ Len(db'.places) > Len(db.places)
             => db'.places[Len(db'.places)] =
                   [latitude |-> geodata.latitude, longitude |-> geodata.longitude,
                    radius |-> 50]]_vars

\* the second cycle has created a second place, at another fix, and the
\* first place is as the first cycle created it
C32_Witness ==
    /\ CycleDone /\ cycles = 2
    /\ Len(snapC.places) = 1 /\ Len(db.places) = 2
    /\ db.places[1] = snapC.places[1]
    /\ db.places[2].longitude # db.places[1].longitude
    /\ db.places[2].radius = 50

----------------------------------------------------------------------------
(* The fingerprint of a sighting: two devices, each advertising any list   *)
(* of up to MaxUuids service uuids, are sighted at two places, and the     *)
(* fingerprint report is asked for.                                        *)

MaxUuids == 2

Uuids == {Uuid18, Uuid0f, Uuid180f}

RECURSIVE UuidListsOf(_)
UuidListsOf(n) ==
    IF n = 0 THEN {<<>>}
    ELSE LET shorter == UuidListsOf(n - 1)
         IN shorter \cup {Append(l, u) : l \in {k \in shorter : Len(k) = n - 1},
                                         u \in Uuids}

UuidLists == UuidListsOf(MaxUuids)

SignatureInit ==
    /\ db = WithPlaces(MaxPlaces)
    /\ sess = db
    /\ pc = "sign"
    /\ \E u1 \in UuidLists, u2 \in UuidLists :
         devices = <<[address |-> "AA:BB:CC:DD:EE:FF", rssi |-> -60, uuids |-> u1],
                     [address |-> "11:22:33:44:55:66", rssi |-> -60, uuids |-> u2]>>
    /\ idx = 1
    /\ geodata = NoGeoData
    /\ place = None
    /\ new_place = None
    /\ cached_geodata = NoGeoData
    /\ last_gps_fetch = datetime_min
    /\ now = datetime_min + 2 * CacheSeconds
    /\ cycles = 0
    /\ faults = 0
    /\ branch = "none"
    /\ faulted = {}
    /\ snapS = EmptyStore
    /\ snapC = EmptyStore
    /\ log = <<>>
    /\ is_scanning = FALSE
    /\ scan_task = "None"
    /\ tasks = 0
    /\ events = <<>>
    /\ ctl = "none"
    /\ report = <<>>

\* lines 160-165 and _record_seen for the two sightings: the first device at
\* the first place, the second at the second
sign_and_record ==
    /\ pc = "sign"
    /\ db' = AddSeen(AddSeen(db, devices[1].address, 1, now, devices[1].rssi,
                             gatt_signature(devices[1].uuids)),
                     devices[2].address, 2, now, devices[2].rssi,
                     gatt_signature(devices[2].uuids))
    /\ sess' = db'
    /\ pc' = "report"
    /\ UNCHANGED <<devices, idx, geodata, place, new_place, cached_geodata, last_gps_fetch,
                   now, cycles, faults, branch, faulted, snapS, snapC, log>>
    /\ UNCHANGED hostVars

signature_report ==
    /\ pc = "report"
    /\ \E query_fails \in BOOLEAN :
         Reported(gatt_report(db), {}, query_fails, "reported")

SignatureNext == sign_and_record \/ signature_report

SignatureSpec == SignatureInit /\ [][SignatureNext]_vars

\* C33: the fingerprints of two sightings are equal exactly when their lists
\* of advertised uuids are equal, element by element and in the same order;
\* a sighting has the null fingerprint exactly when it advertises nothing;
\* and the report, over the two sightings at two places, has a group
\* exactly when the two lists are equal and not empty: the null fingerprint
\* is never reported.
C33_FingerprintKeepsOrder ==
    pc \in {"report", "reported"}
        => LET u1 == devices[1].uuids
               u2 == devices[2].uuids
               f1 == db.seen[1].gatt_signature
               f2 == db.seen[2].gatt_signature
           IN /\ f1 = f2 <=> (Len(u1) = Len(u2) /\ \A i \in 1..Len(u1) : u1[i] = u2[i])
              /\ f1 = <<>> <=> Len(u1) = 0
              /\ f2 = <<>> <=> Len(u2) = 0
              /\ (pc = "reported" /\ faults = 0)
                    => /\ report # {} <=> (f1 = f2 /\ Len(u1) > 0)
                       /\ \A g \in report : g.gatt_signature # <<>>

\* the second device advertises the two uuids of the first in the other
\* order: two fingerprints, and the report has no group
C33_Witness ==
    /\ pc = "reported" /\ faults = 0
    /\ Len(devices[1].uuids) = 2
    /\ devices[1].uuids[1] # devices[1].uuids[2]
    /\ devices[2].uuids = <<devices[1].uuids[2], devices[1].uuids[1]>>
    /\ db.seen[1].gatt_signature # db.seen[2].gatt_signature
    /\ report = {}

----------------------------------------------------------------------------
(* The scan loop under a fair event loop: a task that can take a step is   *)
(* given it (the scan steps, the loop's next call of scan() after its      *)
(* sleep, and the end of a cancelled task); calls of start_scanning and    *)
(* stop_scanning come as they come.  Cycles are counted up to MaxCycles.   *)

\* what the provider reports while the loop's progress is explored: one
\* device, at a fix that moves between two places
LoopBatches == {<<Sighting("AA:BB:CC:DD:EE:FF")>>}

LoopFixes == {GeoData(0, 0), GeoData(0, 60)}

\* a loop that leaves the `while` after its first pass
loop_pass_Once ==
    /\ is_scanning
    /\ scan_task = "pending"
    /\ cycles = 0
    /\ scan_begin_from(Slept, LoopFixes, LoopBatches)

\* _scan_loop (lines 270-272): one pass of the `while`, scan() after the sleep
loop_pass ==
    /\ is_scanning
    /\ scan_task = "pending"
    /\ scan_begin_from(Slept, LoopFixes, LoopBatches)

LoopNext ==
    \/ start_scanning
    \/ stop_scanning
    \/ scan_loop_cancelled
    \/ stop_returns
    \/ loop_pass
    \/ scan_steps

SchedLiveSpec ==
    /\ Init /\ [][LoopNext]_vars
    /\ WF_vars(loop_pass)
    /\ WF_vars(scan_steps)
    /\ WF_vars(scan_loop_cancelled)

\* the scheduler is Scanning: the flag is set and the task is live
Scanning == is_scanning /\ scan_task = "pending"

\* C34: while the scheduler stays Scanning the loop does not stop on its own,
\* whatever raises inside a cycle: a cycle that has begun comes to its end,
\* and after each cycle another one begins (for as long as cycles are
\* counted), unless stop_scanning has ended Scanning meanwhile.
C34_LoopKeepsScanning ==
    \A c \in 0..(MaxCycles - 1) :
        /\ (Scanning /\ cycles = c /\ pc = "idle") ~> (cycles = c + 1 \/ ~Scanning)
        /\ (Scanning /\ cycles = c + 1 /\ pc # "idle")
              ~> ((cycles = c + 1 /\ pc = "idle") \/ cycles > c + 1 \/ ~Scanning)

\* the loop is Scanning in its second cycle, after a first cycle in which
\* an exception was raised
C34_Witness ==
    /\ Scanning /\ ctl = "start"
    /\ cycles = MaxCycles /\ pc = "commit"
    /\ faults > 0

----------------------------------------------------------------------------
(* start_scanning and stop_scanning called from different coroutines.      *)
(* start_scanning awaits nothing and runs in one step.  stop_scanning      *)
(* suspends once, at `await self._scan_task` (line 651), and the event     *)
(* loop may run a call of start_scanning before it resumes.  While it is   *)
(* suspended ctl = "stopping"; one call of stop_scanning is suspended at a *)
(* time.  The cancelled task is the one at pc = "cancelled": its wake-up   *)
(* is queued by cancel() before a task created later takes its first step, *)
(* so the new task scans once the cancelled one has ended.  scan_task is   *)
(* what self._scan_task refers to, tasks counts the tasks not yet ended.   *)

\* start_scanning (lines 636-643), whoever else is suspended
start_scanning_concurrently ==
    /\ IF MayLaunch
       THEN /\ is_scanning' = TRUE
            /\ scan_task' = "pending"
            /\ tasks' = tasks + 1
            /\ ctl' = IF ctl = "stopping" THEN ctl ELSE "start"
       ELSE /\ ctl' = IF ctl = "stopping" THEN ctl ELSE "start_again"
            /\ UNCHANGED <<is_scanning, scan_task, tasks>>
    /\ UNCHANGED <<db, sess, pc, devices, idx, geodata, place, new_place,
                   cached_geodata, last_gps_fetch, now, cycles, faults, branch,
                   faulted, snapS, snapC, log, events, report>>

\* the cancelled task ends (line 273); self._scan_task may by now refer to
\* another task
cancelled_task_ends ==
    /\ pc = "cancelled"
    /\ pc' = "idle"
    /\ sess' = db
    /\ scan_task' = IF scan_task = "cancelling" THEN "done" ELSE scan_task
    /\ tasks' = tasks - 1
    /\ UNCHANGED <<db, devices, idx, geodata, place, new_place, cached_geodata,
                   last_gps_fetch, now, cycles, faults, branch, faulted, snapS,
                   snapC, log, is_scanning, events, ctl, report>>

\* stop_scanning resumes when the task it awaits has ended, and clears
\* self._scan_task whatever it refers to (lines 652-654)
stop_resumes ==
    /\ ctl = "stopping"
    /\ pc # "cancelled"
    /\ scan_task' = "None"
    /\ ctl' = "stop"
    /\ UNCHANGED <<db, sess, pc, devices, idx, geodata, place, new_place,
                   cached_geodata, last_gps_fetch, now, cycles, faults, branch,
                   faulted, snapS, snapC, log, is_scanning, tasks, events, report>>

\* _scan_loop (lines 270-272) of a task that has not ended, referred to or not
live_task_pass ==
    /\ is_scanning
    /\ tasks > 0
    /\ scan_begin_from(Slept, LoopFixes, LoopBatches)

RaceNext ==
    \/ start_scanning_concurrently
    \/ stop_scanning
    \/ cancelled_task_ends
    \/ stop_resumes
    \/ live_task_pass
    \/ scan_steps

RaceSpec == Init /\ [][RaceNext]_vars

\* the task self._scan_task refers to, if it is one that can still be cancelled
HoldsLiveTask == scan_task = "pending" /\ tasks > 0

\* C35: whenever is_running() is True, self._scan_task refers to the live
\* periodic task, so that a later stop_scanning can cancel it: the scheduler
\* is never Scanning with no task reference.
C35_RunningHoldsItsTask ==
    is_scanning => HoldsLiveTask

----------------------------------------------------------------------------
\* C36: a Place is created only at a fix no existing place covers: of any
\* two stored places, the centre of the later one lies outside the radius
\* of the earlier one, and no two places have the same coordinates.
C36_PlacesDoNotCover ==
    \A i \in 1..Len(db.places), j \in 1..Len(db.places) :
        i < j => /\ distance_between(db.places[j], db.places[i]) > db.places[i].radius
                 /\ <<db.places[i].latitude, db.places[i].longitude>>
                       # <<db.places[j].latitude, db.places[j].longitude>>

----------------------------------------------------------------------------
\* the Relocation rows and the PlaceDevice rows the ledger st holds of address a
RelocationsOf(st, a) == Len(LedgerOf(st, a).relocations)

PlaceDevicesOf(st, a) == Cardinality(DOMAIN LedgerOf(st, a).links)

\* C37: at every cycle boundary, each device of the committed ledger has one
\* Relocation row less than it has PlaceDevice rows.
C37_RelocationPerLink ==
    pc = "idle"
        => \A a \in DOMAIN db.devices :
              RelocationsOf(db, a) = PlaceDevicesOf(db, a) - 1

----------------------------------------------------------------------------
\* the new_geodata of the latest Relocation row the ledger st holds of address a
LatestRelocation(st, a) ==
    LedgerOf(st, a).relocations[RelocationsOf(st, a)].new_geodata

\* C38: Device.geodata is written when the Device is created, with the fix
\* of that cycle, and when a Relocation row of the device is written, with
\* that row's new_geodata, and by nothing else: a device that has Relocation
\* rows carries the new_geodata of the latest one, and a same-place sighting
\* leaves the geodata as it was, whatever the fix of that sighting.
C38_GeodataOfLatestRelocation ==
    /\ [](\A a \in DOMAIN db.devices :
             RelocationsOf(db, a) > 0 => db.devices[a].geodata = LatestRelocation(db, a))
    /\ [][\A a \in DOMAIN db'.devices :
             IF a \in DOMAIN db.devices
             THEN LedgerOf(db', a).relocations = LedgerOf(db, a).relocations
                     => db'.devices[a].geodata = db.devices[a].geodata
             ELSE db'.devices[a].geodata = FormatGeodata(geodata)]_vars
    /\ []((SightingDone /\ last.branch = "same_place"
              /\ last.address \in DOMAIN db.devices \cap DOMAIN snapS.devices)
            => db.devices[last.address].geodata = snapS.devices[last.address].geodata)

\* the device that relocated to the second place is sighted at the first
\* again and the cycle is committed: its geodata is still that of its
\* relocation, not the fix of this sighting
C38_Witness ==
    /\ CycleDone /\ faults = 0
    /\ Len(log) > 0 /\ last.address = VisitedAddress /\ last.branch = "same_place"
    /\ geodata = GeoData(0, 0)
    /\ db.devices[VisitedAddress].times_seen > VisitedTwo.devices[VisitedAddress].times_seen
    /\ db.devices[VisitedAddress].geodata = FormatGeodata(GeoData(0, 60))
    /\ db.devices[VisitedAddress].geodata # FormatGeodata(geodata)

----------------------------------------------------------------------------
\* C39: every Seen row of the committed ledger refers to a Device and to a
\* Place the ledger holds, and the ledger holds the PlaceDevice row of the
\* row's (place, device) pair.
C39_SeenRowsAreLinked ==
    \A k \in 1..Len(db.seen) :
        /\ db.seen[k].device_id \in DOMAIN db.devices
        /\ db.seen[k].place_id \in 1..Len(db.places)
        /\ <<db.seen[k].place_id, db.seen[k].device_id>> \in DOMAIN db.place_devices

============================================================================
